---- MODULE Spec2Model ----
(***************************************************************************)
(* SHolo: gaze / hand-gesture control layer of a rotating 3D view.         *)
(*                                                                         *)
(* The module holds several specifications over one set of variables:      *)
(*   SpecHands   hands_tracking.HandTracker, one action per processed       *)
(*               frame (track), the callbacks recorded as emitted events;  *)
(*   SpecMotion  view_3d.HoloViewer projected on MotionState: swipe,        *)
(*               stop_rotation and the speed update of _auto_rotate;       *)
(*   SpecPose    view_3d.HoloViewer with the scene transform: the whole    *)
(*               _auto_rotate and set_camera_angle;                        *)
(*   SpecConc    the producer thread (SHolo.StimuliRetrieverThread) and    *)
(*               the pyglet thread interleaved at attribute load / store   *)
(*               granularity, as CPython's interpreter lock allows.        *)
(*   SpecGaze    eyes_tracking.EyeTracker.track with compute_gaze_rotation *)
(*               and set_camera_angle as its callback, and the tick;       *)
(*   SpecRun     SHolo.py as a whole: the main thread entering the pyglet  *)
(*               event loop and the producer's frame loop up to its stop.  *)
(*                                                                         *)
(* Units.  Floats are modelled in fixed point:                             *)
(*   time        1 unit = 0.5 s                                            *)
(*   wrist x     1 unit = 1/4000 of the normalised frame width             *)
(*   landmark y  1 unit = 1/100 of the normalised frame height             *)
(*   magnitude   1 unit = 0.01 (what round(.., 2) keeps)                   *)
(*   speed       1 unit = 1/SpeedScale turns per second                    *)
(*   angle       1 unit = 1/(SpeedScale * fps) of a turn                   *)
(*   length      1 unit = 0.1 cm                                           *)
(***************************************************************************)
EXTENDS Integers, Sequences, FiniteSets, TLC

VARIABLES
    \* ---- hands_tracking.HandTracker (src/hands_tracking.py:24-28)
    prev_x,             \* None or Some(x)
    hand_visible,
    last_seen_time,
    last_gesture_time,
    \* ---- observation of the last processed frame (history variables)
    n_hands,            \* number of hands the detector returned for it
    last_x,             \* wrist x of the last hand of its list, None without hands
    emitted,            \* the callbacks the frame invoked, in order
    emit_times,         \* clock readings of the callbacks of all earlier frames
    reacquired,         \* "no", or how a hand came back after a long absence
    suppressed,         \* "no", or what became of a large move the cooldown held back
    own_x,              \* per physical hand: its own last sample
    \* ---- view_3d.HoloViewer, MotionState (src/view_3d.py:19-26)
    current_speed,
    target_speed,
    deceleration,
    rotation_direction,
    \* ---- view_3d.HoloViewer, camera pose and scene (src/view_3d.py:29-30)
    camera_current_angle,
    camera_current_direction,
    scene,              \* accumulated scene transform
    spin_total,         \* history: sum of the spin angles applied by ticks
    spin_ticks,         \* history: number of ticks that touched the scene
    last_op,            \* history: the last viewer operation and its input
    \* ---- eyes_tracking.EyeTracker: observation of the last processed frame
    gaze,               \* history: faces found, ipd_px, and what the callback got
    \* ---- threads (SpecConc)
    ppc, preg,          \* producer: position and locals
    cpc, creg,          \* consumer: position and locals
    conc,               \* history of the calls in flight
    \* ---- the program run (SpecRun): SHolo.py, __main__ and the producer loop
    run,                \* position of the main and of the producer thread, has_exit
    calls               \* gesture events classified, and the viewer calls made for them

handVars   == <<prev_x, hand_visible, last_seen_time, last_gesture_time,
                n_hands, last_x, emitted, emit_times, reacquired, suppressed, own_x>>
motionVars == <<current_speed, target_speed, deceleration, rotation_direction>>
poseVars   == <<camera_current_angle, camera_current_direction, scene,
                spin_total, spin_ticks>>
eyeVars    == <<gaze>>
threadVars == <<ppc, preg, cpc, creg, conc>>
runVars    == <<run, calls>>
vars       == <<handVars, motionVars, poseVars, last_op, eyeVars, threadVars, runVars>>

(***************************************************************************)
(* Generic helpers                                                         *)
(***************************************************************************)
None == <<>>
Some(v) == <<v>>
Abs(n) == IF n < 0 THEN -n ELSE n
Max2(a, b) == IF a >= b THEN a ELSE b

RECURSIVE SumSeq(_)
SumSeq(s) == IF s = <<>> THEN 0 ELSE Head(s) + SumSeq(Tail(s))

\* Nearest integer to n/d (d > 0), ties to the even neighbour: the rounding
\* of IEEE-754 arithmetic and of Python's round().
RoundDiv(n, d) ==
    LET q == n \div d
        r == n % d
    IN  IF 2 * r < d THEN q
        ELSE IF 2 * r > d THEN q + 1
        ELSE IF q % 2 = 0 THEN q ELSE q + 1

(***************************************************************************)
(* config.py                                                               *)
(***************************************************************************)
SWIPE_THRESHOLD == 600              \* 0.15 frame widths
STOP_THRESHOLD == 60                \* 0.6 frame heights
GESTURE_COOLDOWN == 1               \* 0.5 s
VISIBILITY_RESET_TIME == 3          \* 1.5 s

(***************************************************************************)
(* Bounds of the hand-tracking model                                       *)
(***************************************************************************)
MaxTime == 4                        \* clock readings range over Epoch..Epoch+MaxTime
Epoch == 2                          \* time.time() at construction (> cooldown, as any real clock)
MaxHands == 2                       \* mediapipe Hands(): max_num_hands default

Times == Epoch .. (Epoch + MaxTime)
HandIds == 1 .. MaxHands

\* Wrist x samples: 0.2, 0.35 (exactly the threshold away) and 0.50075.
WristXs == {800, 1400, 2003}

\* Landmark y of the wrist (landmark 0) and the five fingertips (4, 8, 12,
\* 16, 20).  Open: openness 0.65.  Half: openness exactly 0.6.
OpenPalm == [wrist_y |-> 90, tips |-> <<40, 20, 15, 20, 30>>]
HalfOpen == [wrist_y |-> 90, tips |-> <<70, 25, 20, 25, 10>>]
HandShapes == {OpenPalm, HalfOpen}

HandSamples == [id : HandIds, x : WristXs, shape : HandShapes]

\* The frames: lists of at most MaxHands hands, all of different identity
\* (a frame with both hands lists them in the order of their identities).
Frames ==
    {<<>>} \cup {<<h>> : h \in HandSamples}
           \cup {p \in HandSamples \X HandSamples : p[1].id < p[2].id}

(***************************************************************************)
(* hands_tracking.HandTracker                                              *)
(***************************************************************************)
\* The shared cooldown test of both gestures.
CooldownOverInclusive(t, last) == t - last >= GESTURE_COOLDOWN
CooldownOver(t, last) == t - last > GESTURE_COOLDOWN

\* abs(movement) * 10 cut after two decimals instead of rounded.
SwipeMagnitudeTruncated(movement) == (Abs(movement) * 10 * 100) \div 4000

\* round(abs(movement) * 10, 2), in hundredths.
SwipeMagnitude(movement) == RoundDiv(Abs(movement) * 10 * 100, 4000)

\* abs(np.mean([tip - palm_center for tip in finger_tips]))
Openness(shape) ==
    Abs(SumSeq([i \in 1..5 |-> shape.tips[i] - shape.wrist_y]) \div 5)

\* A handle_swipe whose line 69 is inside the test of line 57.
handle_swipe_set_inside(st, h, t) ==
    LET x == h.x
        movement == x - st.prev_x[1]
        fires == /\ st.prev_x # None
                 /\ Abs(movement) > SWIPE_THRESHOLD
                 /\ CooldownOver(t, st.last_gesture_time)
        ev == [kind |-> "Swipe", hand |-> h.id, t |-> t, movement |-> movement,
               value |-> (IF movement > 0 THEN 1 ELSE -1) * SwipeMagnitude(movement)]
    IN  [prev_x |-> IF st.prev_x # None THEN Some(x) ELSE st.prev_x,
         last_gesture_time |-> IF fires THEN t ELSE st.last_gesture_time,
         out |-> IF fires THEN Append(st.out, ev) ELSE st.out]

\* A handle_swipe that measures from the position of the last Swipe: prev_x
\* is set when there was none and when a Swipe fires.
handle_swipe_since_gesture(st, h, t) ==
    LET x == h.x
        movement == x - st.prev_x[1]
        fires == /\ st.prev_x # None
                 /\ Abs(movement) > SWIPE_THRESHOLD
                 /\ CooldownOver(t, st.last_gesture_time)
        ev == [kind |-> "Swipe", hand |-> h.id, t |-> t, movement |-> movement,
               value |-> (IF movement > 0 THEN 1 ELSE -1) * SwipeMagnitude(movement)]
    IN  [prev_x |-> IF st.prev_x = None \/ fires THEN Some(x) ELSE st.prev_x,
         last_gesture_time |-> IF fires THEN t ELSE st.last_gesture_time,
         out |-> IF fires THEN Append(st.out, ev) ELSE st.out]

\* st = [prev_x, last_gesture_time, out]: the fields the two handlers touch
\* and the callbacks invoked so far in this frame.
handle_swipe(st, h, t) ==
    LET x == h.x
        movement == x - st.prev_x[1]
        fires == /\ st.prev_x # None
                 /\ Abs(movement) > SWIPE_THRESHOLD
                 /\ CooldownOver(t, st.last_gesture_time)
        ev == [kind |-> "Swipe", hand |-> h.id, t |-> t, movement |-> movement,
               value |-> (IF movement > 0 THEN 1 ELSE -1) * SwipeMagnitude(movement)]
    IN  [prev_x |-> Some(x),
         last_gesture_time |-> IF fires THEN t ELSE st.last_gesture_time,
         out |-> IF fires THEN Append(st.out, ev) ELSE st.out]

handle_stop_gesture(st, h, t) ==
    LET fires == /\ Openness(h.shape) > STOP_THRESHOLD
                 /\ CooldownOver(t, st.last_gesture_time)
        ev == [kind |-> "Stop", hand |-> h.id, t |-> t, movement |-> 0, value |-> 0]
    IN  [prev_x |-> st.prev_x,
         last_gesture_time |-> IF fires THEN t ELSE st.last_gesture_time,
         out |-> IF fires THEN Append(st.out, ev) ELSE st.out]

\* A loop that evaluates the stop gesture before the swipe.
RECURSIVE track_loop_stop_first(_, _, _)
track_loop_stop_first(st, hands, t) ==
    IF hands = <<>> THEN st
    ELSE track_loop_stop_first(
             handle_swipe(handle_stop_gesture(st, Head(hands), t), Head(hands), t),
             Tail(hands), t)

\* The loop over result.multi_hand_landmarks.
RECURSIVE track_loop(_, _, _)
track_loop(st, hands, t) ==
    IF hands = <<>> THEN st
    ELSE track_loop(handle_stop_gesture(handle_swipe(st, Head(hands), t), Head(hands), t),
                    Tail(hands), t)

\* The else branch of track, lines 45-48.
VisibilityReset(t) == hand_visible /\ (t - last_seen_time > VISIBILITY_RESET_TIME)

HandOf(hands, id) == hands[CHOOSE i \in 1..Len(hands) : hands[i].id = id]
InFrame(hands, id) == \E i \in 1..Len(hands) : hands[i].id = id

\* History: what an observer who follows each physical hand on its own
\* would say of a callback of this frame.
Observed(ev, hands) ==
    LET h == HandOf(hands, ev.hand)
    IN  [kind |-> ev.kind, hand |-> ev.hand, t |-> ev.t, movement |-> ev.movement,
         value |-> ev.value,
         own |-> /\ own_x[ev.hand] # None
                 /\ Abs(h.x - own_x[ev.hand][1]) > SWIPE_THRESHOLD,
         open |-> Openness(h.shape) > STOP_THRESHOLD]

\* History: a frame with one hand that follows a frame with a hand.  "held":
\* the wrist moved by more than the threshold since that frame while the
\* cooldown was running.  "dropped": the frame before was "held", the
\* cooldown is over and the wrist moved by no more than the threshold.
Suppression(t, hands) ==
    IF Len(hands) = 1 /\ last_x # None
    THEN LET d == Abs(hands[1].x - last_x[1])
             over == CooldownOver(t, last_gesture_time)
         IN  IF d > SWIPE_THRESHOLD /\ ~over THEN "held"
             ELSE IF suppressed = "held" /\ d <= SWIPE_THRESHOLD /\ over THEN "dropped"
             ELSE "no"
    ELSE "no"

\* One call of track: the clock reads t and the detector returns hands.
Track(t, hands) ==
    LET st0 == [prev_x |-> prev_x, last_gesture_time |-> last_gesture_time, out |-> <<>>]
        st1 == track_loop(st0, hands, t)
    IN  /\ IF hands # <<>>
           THEN /\ hand_visible' = TRUE
                /\ last_seen_time' = t
                /\ prev_x' = st1.prev_x
                /\ last_gesture_time' = st1.last_gesture_time
                /\ emitted' = [i \in 1..Len(st1.out) |-> Observed(st1.out[i], hands)]
                /\ own_x' = [id \in HandIds |->
                               IF InFrame(hands, id) THEN Some(HandOf(hands, id).x)
                               ELSE own_x[id]]
                /\ last_x' = Some(hands[Len(hands)].x)
                /\ reacquired' =
                       IF n_hands = 0 /\ (t - last_seen_time > VISIBILITY_RESET_TIME)
                       THEN (IF prev_x = None THEN "clean" ELSE "stale")
                       ELSE "no"
           ELSE /\ prev_x' = IF VisibilityReset(t) THEN None ELSE prev_x
                /\ hand_visible' = IF VisibilityReset(t) THEN FALSE ELSE hand_visible
                /\ own_x' = IF VisibilityReset(t) THEN [id \in HandIds |-> None] ELSE own_x
                /\ emitted' = <<>>
                /\ last_x' = None
                /\ reacquired' = "no"
                /\ UNCHANGED <<last_seen_time, last_gesture_time>>
        /\ n_hands' = Len(hands)
        /\ suppressed' = Suppression(t, hands)
        /\ emit_times' = emit_times \cup {emitted[i].t : i \in 1..Len(emitted)}

TrackFrame ==
    /\ \E t \in Times, hands \in Frames : Track(t, hands)
    /\ UNCHANGED <<motionVars, poseVars, last_op, eyeVars, threadVars, runVars>>

NextHands == TrackFrame

(***************************************************************************)
(* view_3d.HoloViewer: MotionState                                         *)
(***************************************************************************)
fps == 24
SpeedScale == 80 * fps              \* speed units per turn/s: 1920
base_speed == 240                   \* 0.125
base_deceleration == 24             \* 0.0125
stop_deceleration == 480            \* 0.25
FullTurn == SpeedScale * fps        \* angle units per turn

MaxSpeed == 2000                    \* swipe is not taken beyond this speed

\* Signed magnitudes handed to swipe, in hundredths (2.0, 0.5, -0.5, -3.0).
SwipeMagnitudes == {200, 50, -50, -300}

\* Lines 43-49: the new current_speed of a tick; delta_time = 1 / fps.
LinearNoClamp(cur, target, decel) == cur - RoundDiv(decel, fps)
LinearDecay(cur, target, decel) == Max2(cur - RoundDiv(decel, fps), target)
ExponentialDecayToZero(cur, target) == RoundDiv(cur * (fps - 1), fps)
ExponentialDecay(cur, target) == RoundDiv(cur * (fps - 1) + target, fps)

auto_rotate_speed_exponential_only(cur, target, decel) ==
    IF cur > target THEN ExponentialDecay(cur, target) ELSE cur

auto_rotate_speed(cur, target, decel) ==
    IF cur > target
    THEN IF (cur - target) > Max2(target, decel)
         THEN ExponentialDecay(cur, target)
         ELSE LinearDecay(cur, target, decel)
    ELSE cur

\* Line 52: the angle of the tick's rotation about [0, 1, 0], in angle units
\* (rotation_direction * current_speed * 2 pi * delta_time).
spin_angle(dir, cur) == dir * cur

\* Line 72: swipe_magnitude / 5, in speed units.
swipe_scaled(m) == RoundDiv(m * SpeedScale, 100 * 5)

\* Lines 75-77: the signed sum, the direction derived from it, its absolute value.
swipe_signed(m, cur, dir) == swipe_scaled(m) + cur * dir
swipe_direction_strict(signed) == IF signed > 0 THEN 1 ELSE -1
swipe_direction(signed) == IF signed >= 0 THEN 1 ELSE -1

MotionState == [current_speed |-> current_speed, target_speed |-> target_speed,
                deceleration |-> deceleration,
                rotation_direction |-> rotation_direction]

\* History of the last call: its name and argument, MotionState before it,
\* the kind of the last gesture, and a bit that every gesture flips.
Op(name, arg, gesture) ==
    [name |-> name, arg |-> arg, before |-> MotionState, gesture |-> gesture,
     epoch |-> IF name \in {"swipe", "stop_rotation"}
               THEN 1 - last_op.epoch ELSE last_op.epoch]

\* MotionState after a whole call of swipe(m) / a whole tick from ms.
swipe_state(ms, m) ==
    LET signed == swipe_signed(m, ms.current_speed, ms.rotation_direction)
        dir == swipe_direction(signed)
    IN  [current_speed |-> signed * dir, rotation_direction |-> dir,
         target_speed |-> base_speed, deceleration |-> base_deceleration]

tick_state(ms) ==
    [ms EXCEPT !.current_speed =
        auto_rotate_speed(ms.current_speed, ms.target_speed, ms.deceleration)]

\* HoloViewer.swipe, lines 69-80.
swipe(m) ==
    LET after == swipe_state(MotionState, m)
    IN  /\ after.current_speed <= MaxSpeed
        /\ current_speed' = after.current_speed
        /\ rotation_direction' = after.rotation_direction
        /\ target_speed' = after.target_speed
        /\ deceleration' = after.deceleration
        /\ last_op' = Op("swipe", m, "Swipe")

\* A stop_rotation that halts the view at once.
stop_rotation_at_once ==
    /\ target_speed' = 0
    /\ deceleration' = stop_deceleration
    /\ current_speed' = 0
    /\ UNCHANGED rotation_direction
    /\ last_op' = Op("stop_rotation", 0, "Stop")

\* HoloViewer.stop_rotation, lines 82-85.
stop_rotation ==
    /\ target_speed' = 0
    /\ deceleration' = stop_deceleration
    /\ UNCHANGED <<current_speed, rotation_direction>>
    /\ last_op' = Op("stop_rotation", 0, "Stop")

\* The MotionState part of _auto_rotate, lines 38-50 (what the tick does to
\* the scene is in auto_rotate below).
auto_rotate_motion ==
    /\ current_speed' = tick_state(MotionState).current_speed
    /\ UNCHANGED <<target_speed, deceleration, rotation_direction>>
    /\ last_op' = Op("tick", 0, last_op.gesture)

Swipe == /\ \E m \in SwipeMagnitudes : swipe(m)
         /\ UNCHANGED <<handVars, poseVars, eyeVars, threadVars, runVars>>
Stop == /\ stop_rotation
        /\ UNCHANGED <<handVars, poseVars, eyeVars, threadVars, runVars>>
TickMotion == /\ auto_rotate_motion
              /\ UNCHANGED <<handVars, poseVars, eyeVars, threadVars, runVars>>

NextMotion == Swipe \/ Stop \/ TickMotion

(***************************************************************************)
(* view_3d.HoloViewer: camera pose and scene transform                     *)
(*                                                                         *)
(* A finite transform is kept as the word of its rotation factors, leftmost*)
(* (last applied) first, in normal form: neighbouring factors about the    *)
(* same axis are merged (R(a,d) R(b,d) = R(a+b,d)), angles are taken modulo*)
(* a full turn and zero rotations are dropped.  Rotations about different  *)
(* axes do not commute and are never merged.                               *)
(***************************************************************************)
AxisX == <<1, 0, 0>>                \* direction of a pure pitch
AxisY == <<0, 1, 0>>                \* direction of a pure yaw; the spin axis
ZeroVector == <<0, 0, 0>>           \* compute_gaze_rotation at screen centre

Identity == [finite |-> TRUE, word |-> <<>>]
NonFinite == [finite |-> FALSE, word |-> <<>>]

\* A rotation about -d is the opposite rotation about d: a factor is kept
\* with the axis whose first non-zero component is positive.
Reversed(direction) ==
    \/ direction[1] < 0
    \/ direction[1] = 0 /\ direction[2] < 0
    \/ direction[1] = 0 /\ direction[2] = 0 /\ direction[3] < 0

\* trimesh.transformations.rotation_matrix(angle, direction): the direction
\* is normalised by division by its norm, which for the zero vector is 0/0
\* (numpy: nan in every entry, whatever the angle).
rotation_matrix(angle, direction) ==
    LET a == (IF Reversed(direction) THEN -angle ELSE angle) % FullTurn
        d == IF Reversed(direction) THEN [i \in 1..3 |-> -direction[i]] ELSE direction
    IN  IF direction = ZeroVector THEN NonFinite
        ELSE IF a = 0 THEN Identity
        ELSE [finite |-> TRUE, word |-> <<[angle |-> a, axis |-> d]>>]

\* trimesh Scene.apply_transform: the scene's transform is multiplied by the
\* new one from the left.
apply_transform(sc, tr) ==
    IF ~sc.finite \/ ~tr.finite THEN NonFinite
    ELSE IF tr.word = <<>> THEN sc
    ELSE IF sc.word # <<>> /\ Head(sc.word).axis = Head(tr.word).axis
         THEN LET a == (Head(sc.word).angle + Head(tr.word).angle) % FullTurn
              IN  [finite |-> TRUE,
                   word |-> IF a = 0 THEN Tail(sc.word)
                            ELSE <<[angle |-> a, axis |-> Head(tr.word).axis]>> \o Tail(sc.word)]
         ELSE [finite |-> TRUE, word |-> tr.word \o sc.word]

MaxWord == 2                        \* longest scene word on which a pose is still set
MaxSpinTicks == 3                   \* ticks taken in the scene model

\* Poses handed to set_camera_angle: (angle, direction) as
\* compute_gaze_rotation returns them (angle <= 0; zero only with the zero
\* vector).
GazeRotations ==
    {[angle |-> 0, direction |-> ZeroVector]}
        \cup [angle : {-1500, -4000}, direction : {AxisX, AxisY}]

\* A set_camera_angle that leaves the previous camera view in place.
UndoNothing == Identity

\* Line 63: the transform that removes the previous camera view.
UndoPrevious == rotation_matrix(-camera_current_angle, camera_current_direction)

\* HoloViewer.set_camera_angle, lines 60-67.
set_camera_angle(angle, direction) ==
    /\ Len(scene.word) <= MaxWord
    /\ scene' = apply_transform(apply_transform(scene, UndoPrevious),
                                rotation_matrix(angle, direction))
    /\ camera_current_angle' = angle
    /\ camera_current_direction' = direction
    /\ UNCHANGED <<spin_total, spin_ticks, motionVars>>
    /\ last_op' = [Op("set_camera_angle", <<angle, direction>>, last_op.gesture)
                      EXCEPT !.before = [repeat |-> /\ last_op.name = "set_camera_angle"
                                                    /\ last_op.arg = <<angle, direction>>]]

\* HoloViewer._auto_rotate, lines 38-54.
auto_rotate ==
    LET speed == auto_rotate_speed(current_speed, target_speed, deceleration)
        angle == spin_angle(rotation_direction, speed)
    IN  /\ spin_ticks < MaxSpinTicks
        /\ current_speed' = speed
        /\ UNCHANGED <<target_speed, deceleration, rotation_direction>>
        /\ scene' = apply_transform(scene, rotation_matrix(angle, AxisY))
        /\ spin_total' = (spin_total + angle) % FullTurn
        /\ spin_ticks' = spin_ticks + 1
        /\ UNCHANGED <<camera_current_angle, camera_current_direction>>
        /\ last_op' = Op("tick", 0, last_op.gesture)

SetCameraAngle ==
    /\ \E g \in GazeRotations : set_camera_angle(g.angle, g.direction)
    /\ UNCHANGED <<handVars, eyeVars, threadVars, runVars>>
Tick == /\ auto_rotate
        /\ UNCHANGED <<handVars, eyeVars, threadVars, runVars>>
\* The swipes of the scene model: magnitude 2.0 to the right.
PoseSwipes == {200}
SwipePose == /\ \E m \in PoseSwipes : swipe(m)
             /\ UNCHANGED <<handVars, poseVars, eyeVars, threadVars, runVars>>

NextPose == SetCameraAngle \/ Tick \/ SwipePose

(***************************************************************************)
(* eyes_tracking: EyeTracker.track, estimate_distance, compute_gaze_rotation*)
(* and SHolo.StimuliRetrieverThread.update_eyes.                           *)
(*                                                                         *)
(* Lengths count 0.1 cm, pixels are integers, angles count 1/FullTurn of a *)
(* turn.  A float that is +inf is kept apart from the finite ones.         *)
(***************************************************************************)
CAMERA_WIDTH == 640
CAMERA_HEIGHT == 480
SCREEN_RESOLUTION == <<1920, 1080>>
SCREEN_WIDTH_CM == 520              \* 52 cm
SCREEN_HEIGHT_CM == 295             \* 29.5 cm
SCENE_SCREEN_DISTANCE_CM == 2000    \* 200 cm
IPD_REAL_CM == 65                   \* 6.5 cm
FOCAL_LENGTH_PX == 573              \* (3.92 / 8.7586) * 1280 = 572.9 px

Finite(cm) == [finite |-> TRUE, cm |-> cm]
Infinite == [finite |-> FALSE, cm |-> 0]

\* Angle units in a radian (pi as 355/113).
RadianUnits == (FullTurn * 113) \div 710

\* floor of the square root.
ISqrt(n) == CHOOSE r \in 0..n : r * r <= n /\ n < (r + 1) * (r + 1)

RECURSIVE Gcd(_, _)
Gcd(a, b) == IF b = 0 THEN a ELSE Gcd(b, a % b)

\* The eye centres of a face in pixel coordinates (lines 48-49).  The faces:
\* looking at the screen centre, to the right, to the left, downward,
\* down-right with the head tilted, and a degenerate detection whose two eye
\* centres fall on one pixel.
FaceCentre == [left |-> <<290, 240>>, right |-> <<350, 240>>]
FaceRight == [left |-> <<370, 240>>, right |-> <<430, 240>>]
FaceLeft == [left |-> <<210, 240>>, right |-> <<270, 240>>]
FaceDown == [left |-> <<290, 300>>, right |-> <<350, 300>>]
FaceTilted == [left |-> <<382, 276>>, right |-> <<418, 324>>]
FaceCollapsed == [left |-> <<400, 300>>, right |-> <<400, 300>>]
Faces == {FaceCentre, FaceRight, FaceLeft, FaceDown, FaceTilted, FaceCollapsed}

\* results.multi_face_landmarks: no face, or the one face FaceMesh() tracks.
EyeFrames == {<<>>} \cup {<<f>> : f \in Faces}

\* Line 56: np.linalg.norm of the difference of the eye centres.
ipd_px_of(face) ==
    ISqrt((face.left[1] - face.right[1]) * (face.left[1] - face.right[1])
          + (face.left[2] - face.right[2]) * (face.left[2] - face.right[2]))

\* EyeTracker.estimate_distance, lines 30-32.  ipd_px is a numpy float64:
\* division by 0.0 gives inf (with a RuntimeWarning), not an exception.
estimate_distance(ipd_px) ==
    IF ipd_px = 0 THEN Infinite
    ELSE Finite(RoundDiv(IPD_REAL_CM * FOCAL_LENGTH_PX, ipd_px))

\* Lines 60-67: the gaze point on the screen; int() cuts the fraction.
screen_point(face) ==
    <<((face.left[1] + face.right[1]) * SCREEN_RESOLUTION[1]) \div (2 * CAMERA_WIDTH),
      ((face.left[2] + face.right[2]) * SCREEN_RESOLUTION[2]) \div (2 * CAMERA_HEIGHT)>>

\* np.arctan2(y_num / y_den, x) for x > 0, in angle units: 0 for x = inf;
\* for the finite x of this model |y / x| < 0.11 and the arc tangent is
\* taken as its argument (off by less than 0.4 per cent).
arctan2(y_num, y_den, x) ==
    IF ~x.finite THEN 0 ELSE RoundDiv(RadianUnits * y_num, y_den * x.cm)

\* Lines 96-98: division by the norm when it is > 0.  A direction is kept as
\* the shortest integer vector that points its way.
normalize(v) ==
    LET g == Gcd(Abs(v[1]), Gcd(Abs(v[2]), Abs(v[3])))
    IN  IF g > 0 THEN [i \in 1..3 |-> v[i] \div g] ELSE v

\* compute_gaze_rotation, lines 78-100.
compute_gaze_rotation(screen_x, screen_y, distance_cm) ==
    LET dx == screen_x - SCREEN_RESOLUTION[1] \div 2
        dy == screen_y - SCREEN_RESOLUTION[2] \div 2
        scene_distance_cm ==
            IF distance_cm.finite THEN Finite(SCENE_SCREEN_DISTANCE_CM + distance_cm.cm)
            ELSE Infinite
        yaw_angle == arctan2(dx * SCREEN_WIDTH_CM, SCREEN_RESOLUTION[1], scene_distance_cm)
        pitch_angle == arctan2(dy * SCREEN_HEIGHT_CM, SCREEN_RESOLUTION[2], scene_distance_cm)
    IN  [angle |-> -ISqrt(yaw_angle * yaw_angle + pitch_angle * pitch_angle),
         direction |-> normalize(<<pitch_angle, yaw_angle, 0>>)]

NoGaze == [faces |-> 0, ipd_px |-> 0, called |-> FALSE, distance_cm |-> Finite(0),
           screen |-> <<0, 0>>, before_finite |-> TRUE]

\* EyeTracker.track, lines 34-76, with update_eyes (SHolo.py:54-57) as the
\* callback: every face of the frame sets the camera angle.
track_eyes(faces) ==
    IF faces = <<>>
    THEN /\ gaze' = NoGaze
         /\ UNCHANGED <<motionVars, poseVars, last_op>>
    ELSE LET face == faces[1]
             ipd_px == ipd_px_of(face)
             distance_cm == estimate_distance(ipd_px)
             screen == screen_point(face)
             rot == compute_gaze_rotation(screen[1], screen[2], distance_cm)
         IN  /\ set_camera_angle(rot.angle, rot.direction)
             /\ gaze' = [faces |-> 1, ipd_px |-> ipd_px, called |-> TRUE,
                         distance_cm |-> distance_cm, screen |-> screen,
                         before_finite |-> scene.finite]

TrackEyes ==
    /\ \E faces \in EyeFrames : track_eyes(faces)
    /\ UNCHANGED <<handVars, threadVars, runVars>>

NextGaze == TrackEyes \/ Tick \/ SwipePose

(***************************************************************************)
(* The two threads.  SHolo.StimuliRetrieverThread.run calls viewer.swipe   *)
(* and viewer.stop_rotation from track_hands on the producer thread; pyglet*)
(* calls _auto_rotate on the main thread.  No lock is taken: the threads   *)
(* interleave between any two attribute loads and stores.                  *)
(***************************************************************************)
MaxCalls == 2                       \* producer calls in the thread model
MaxConcTicks == 2                   \* ticks in the thread model

\* Signed magnitudes of the thread model (2.0 and -3.0).
ConcSwipes == {200, -300}

NoLocals == [m |-> 0, cur |-> 0, dir |-> 0, target |-> 0, target2 |-> 0, decel |-> 0]

\* History: MotionState when the calls now in flight began (base), and the
\* calls begun since then.
Begun(kind, m) ==
    LET fresh == ppc = "idle" /\ cpc = "idle"
        c == IF fresh
             THEN [conc EXCEPT !.base = MotionState, !.swipes = <<>>, !.stops = 0, !.ticks = 0]
             ELSE conc
    IN  CASE kind = "swipe" -> [c EXCEPT !.swipes = Append(@, m), !.calls = @ + 1]
          [] kind = "stop"  -> [c EXCEPT !.stops = @ + 1, !.calls = @ + 1]
          [] kind = "tick"  -> [c EXCEPT !.ticks = @ + 1, !.all_ticks = @ + 1]

ProducerStep(from, to) == ppc = from /\ ppc' = to /\ UNCHANGED <<cpc, creg>>
ConsumerStep(from, to) == cpc = from /\ cpc' = to /\ UNCHANGED <<ppc, preg>>
Others == UNCHANGED <<handVars, poseVars, last_op, eyeVars, runVars>>

\* ---- producer: swipe(m), lines 69-80
P_swipe_call ==
    /\ conc.calls < MaxCalls
    /\ \E m \in ConcSwipes :
           /\ preg' = [NoLocals EXCEPT !.m = swipe_scaled(m)]
           /\ conc' = Begun("swipe", m)
    /\ ProducerStep("idle", "swipe75_load_speed")
    /\ UNCHANGED motionVars /\ Others
P_swipe75_load_speed ==
    /\ ProducerStep("swipe75_load_speed", "swipe75_load_direction")
    /\ preg' = [preg EXCEPT !.cur = current_speed]
    /\ UNCHANGED <<motionVars, conc>> /\ Others
P_swipe75_load_direction ==
    /\ ProducerStep("swipe75_load_direction", "swipe75_store_speed")
    /\ preg' = [preg EXCEPT !.dir = rotation_direction]
    /\ UNCHANGED <<motionVars, conc>> /\ Others
P_swipe75_store_speed ==
    /\ ProducerStep("swipe75_store_speed", "swipe76_load_speed")
    /\ current_speed' = preg.m + preg.cur * preg.dir
    /\ UNCHANGED <<target_speed, deceleration, rotation_direction, preg, conc>> /\ Others
P_swipe76_load_speed ==
    /\ ProducerStep("swipe76_load_speed", "swipe76_store_direction")
    /\ preg' = [preg EXCEPT !.cur = current_speed]
    /\ UNCHANGED <<motionVars, conc>> /\ Others
P_swipe76_store_direction ==
    /\ ProducerStep("swipe76_store_direction", "swipe77_load_speed")
    /\ rotation_direction' = swipe_direction(preg.cur)
    /\ UNCHANGED <<current_speed, target_speed, deceleration, preg, conc>> /\ Others
P_swipe77_load_speed ==
    /\ ProducerStep("swipe77_load_speed", "swipe77_load_direction")
    /\ preg' = [preg EXCEPT !.cur = current_speed]
    /\ UNCHANGED <<motionVars, conc>> /\ Others
P_swipe77_load_direction ==
    /\ ProducerStep("swipe77_load_direction", "swipe77_store_speed")
    /\ preg' = [preg EXCEPT !.dir = rotation_direction]
    /\ UNCHANGED <<motionVars, conc>> /\ Others
P_swipe77_store_speed ==
    /\ ProducerStep("swipe77_store_speed", "swipe79_store_target")
    /\ current_speed' = preg.cur * preg.dir
    /\ UNCHANGED <<target_speed, deceleration, rotation_direction, preg, conc>> /\ Others
P_swipe79_store_target ==
    /\ ProducerStep("swipe79_store_target", "swipe80_store_deceleration")
    /\ target_speed' = base_speed
    /\ UNCHANGED <<current_speed, deceleration, rotation_direction, preg, conc>> /\ Others
P_swipe80_store_deceleration ==
    /\ ProducerStep("swipe80_store_deceleration", "idle")
    /\ deceleration' = base_deceleration
    /\ preg' = NoLocals
    /\ UNCHANGED <<current_speed, target_speed, rotation_direction, conc>> /\ Others

\* ---- producer: stop_rotation(), lines 82-85
P_stop_call ==
    /\ conc.calls < MaxCalls
    /\ ProducerStep("idle", "stop84_store_target")
    /\ conc' = Begun("stop", 0)
    /\ UNCHANGED <<motionVars, preg>> /\ Others
P_stop84_store_target ==
    /\ ProducerStep("stop84_store_target", "stop85_store_deceleration")
    /\ target_speed' = 0
    /\ UNCHANGED <<current_speed, deceleration, rotation_direction, preg, conc>> /\ Others
P_stop85_store_deceleration ==
    /\ ProducerStep("stop85_store_deceleration", "idle")
    /\ deceleration' = stop_deceleration
    /\ UNCHANGED <<current_speed, target_speed, rotation_direction, preg, conc>> /\ Others

\* ---- consumer: _auto_rotate(), lines 38-54
C_tick_call ==
    /\ conc.all_ticks < MaxConcTicks
    /\ ConsumerStep("idle", "tick43_load_speed")
    /\ conc' = Begun("tick", 0)
    /\ creg' = NoLocals
    /\ UNCHANGED motionVars /\ Others
C_tick43_load_speed ==
    /\ ConsumerStep("tick43_load_speed", "tick43_load_target")
    /\ creg' = [creg EXCEPT !.cur = current_speed]
    /\ UNCHANGED <<motionVars, conc>> /\ Others
C_tick43_load_target ==
    /\ cpc = "tick43_load_target"
    /\ cpc' = IF creg.cur > target_speed THEN "tick44_load_speed" ELSE "tick52_load_direction"
    /\ creg' = [creg EXCEPT !.target = target_speed]
    /\ UNCHANGED <<ppc, preg, motionVars, conc>> /\ Others
C_tick44_load_speed ==
    /\ ConsumerStep("tick44_load_speed", "tick44_load_target")
    /\ creg' = [creg EXCEPT !.cur = current_speed]
    /\ UNCHANGED <<motionVars, conc>> /\ Others
C_tick44_load_target ==
    /\ ConsumerStep("tick44_load_target", "tick44_load_target_again")
    /\ creg' = [creg EXCEPT !.target = target_speed]
    /\ UNCHANGED <<motionVars, conc>> /\ Others
C_tick44_load_target_again ==
    /\ ConsumerStep("tick44_load_target_again", "tick44_load_deceleration")
    /\ creg' = [creg EXCEPT !.target2 = target_speed]
    /\ UNCHANGED <<motionVars, conc>> /\ Others
C_tick44_load_deceleration ==
    /\ cpc = "tick44_load_deceleration"
    /\ cpc' = IF (creg.cur - creg.target) > Max2(creg.target2, deceleration)
              THEN "tick46_load_speed" ELSE "tick49_load_speed"
    /\ creg' = [creg EXCEPT !.decel = deceleration]
    /\ UNCHANGED <<ppc, preg, motionVars, conc>> /\ Others
C_tick46_load_speed ==
    /\ ConsumerStep("tick46_load_speed", "tick46_load_target")
    /\ creg' = [creg EXCEPT !.cur = current_speed]
    /\ UNCHANGED <<motionVars, conc>> /\ Others
C_tick46_load_target ==
    /\ ConsumerStep("tick46_load_target", "tick46_store_speed")
    /\ creg' = [creg EXCEPT !.target = target_speed]
    /\ UNCHANGED <<motionVars, conc>> /\ Others
C_tick46_store_speed ==
    /\ ConsumerStep("tick46_store_speed", "tick52_load_direction")
    /\ current_speed' = ExponentialDecay(creg.cur, creg.target)
    /\ UNCHANGED <<target_speed, deceleration, rotation_direction, creg, conc>> /\ Others
C_tick49_load_speed ==
    /\ ConsumerStep("tick49_load_speed", "tick49_load_deceleration")
    /\ creg' = [creg EXCEPT !.cur = current_speed]
    /\ UNCHANGED <<motionVars, conc>> /\ Others
C_tick49_load_deceleration ==
    /\ ConsumerStep("tick49_load_deceleration", "tick49_load_target")
    /\ creg' = [creg EXCEPT !.decel = deceleration]
    /\ UNCHANGED <<motionVars, conc>> /\ Others
C_tick49_load_target ==
    /\ ConsumerStep("tick49_load_target", "tick49_store_speed")
    /\ creg' = [creg EXCEPT !.target = target_speed]
    /\ UNCHANGED <<motionVars, conc>> /\ Others
C_tick49_store_speed ==
    /\ ConsumerStep("tick49_store_speed", "tick52_load_direction")
    /\ current_speed' = LinearDecay(creg.cur, creg.target, creg.decel)
    /\ UNCHANGED <<target_speed, deceleration, rotation_direction, creg, conc>> /\ Others
C_tick52_load_direction ==
    /\ ConsumerStep("tick52_load_direction", "tick52_load_speed")
    /\ creg' = [creg EXCEPT !.dir = rotation_direction]
    /\ UNCHANGED <<motionVars, conc>> /\ Others
C_tick52_load_speed ==
    /\ ConsumerStep("tick52_load_speed", "tick53_apply")
    /\ creg' = [creg EXCEPT !.cur = current_speed]
    /\ UNCHANGED <<motionVars, conc>> /\ Others
\* Lines 53-54: the rotation by spin_angle(creg.dir, creg.cur) goes to the
\* scene, which this projection on MotionState leaves out.
C_tick53_apply ==
    /\ ConsumerStep("tick53_apply", "idle")
    /\ creg' = NoLocals
    /\ UNCHANGED <<motionVars, conc>> /\ Others

NextConc ==
    \/ P_swipe_call \/ P_swipe75_load_speed \/ P_swipe75_load_direction
    \/ P_swipe75_store_speed \/ P_swipe76_load_speed \/ P_swipe76_store_direction
    \/ P_swipe77_load_speed \/ P_swipe77_load_direction \/ P_swipe77_store_speed
    \/ P_swipe79_store_target \/ P_swipe80_store_deceleration
    \/ P_stop_call \/ P_stop84_store_target \/ P_stop85_store_deceleration
    \/ C_tick_call \/ C_tick43_load_speed \/ C_tick43_load_target
    \/ C_tick44_load_speed \/ C_tick44_load_target \/ C_tick44_load_target_again
    \/ C_tick44_load_deceleration \/ C_tick46_load_speed \/ C_tick46_load_target
    \/ C_tick46_store_speed \/ C_tick49_load_speed \/ C_tick49_load_deceleration
    \/ C_tick49_load_target \/ C_tick49_store_speed \/ C_tick52_load_direction
    \/ C_tick52_load_speed \/ C_tick53_apply

(***************************************************************************)
(* The program run: SHolo.py.  The main thread starts the producer thread  *)
(* and enters the pyglet event loop; the producer reads frames, tracks     *)
(* eyes and hands, and the gesture callbacks call the viewer; when its     *)
(* loop ends it tells the event loop to exit.                              *)
(*                                                                         *)
(* A viewer call is taken as one step here (SpecConc has its interleaving  *)
(* with the tick), and the tick by its effect on MotionState.  The         *)
(* classifier's own bookkeeping of a frame is taken before the callback of *)
(* that frame: both run on the producer thread and touch disjoint state.   *)
(***************************************************************************)
MaxFrames == 3                      \* frames the camera delivers
MaxRunTicks == 2                    \* ticks taken above target_speed in the run model

\* What the detectors return in the run model.
RunEyeFrames == {<<>>, <<FaceRight>>}
RunHandFrames ==
    {<<>>,
     <<[id |-> 1, x |-> 800, shape |-> HalfOpen]>>,
     <<[id |-> 1, x |-> 2003, shape |-> HalfOpen]>>,
     <<[id |-> 1, x |-> 2003, shape |-> OpenPalm]>>}

\* A callback that is handed to another thread and not waited for.
callback_continuation_detached == "key"

\* swipe_callback(...) / stop_callback() are plain calls (hands_tracking.py
\* lines 67 and 81): the producer is inside the callee until it returns.
callback_continuation == "in_call"

\* ---- main thread
\* stimuli_thread.start(), line 71.
M_start_thread ==
    /\ run.main = "start"
    /\ run' = [run EXCEPT !.main = "run_entry", !.producer = "loop_test"]
    /\ UNCHANGED <<calls, handVars, motionVars, poseVars, last_op, eyeVars, threadVars>>

\* pyglet.app.run(), line 74: EventLoop.run clears has_exit before its loop.
M_run_entry ==
    /\ run.main = "run_entry"
    /\ run' = [run EXCEPT !.main = "looping", !.has_exit = FALSE]
    /\ UNCHANGED <<calls, handVars, motionVars, poseVars, last_op, eyeVars, threadVars>>

\* One turn of the event loop: the scheduled callback _auto_motor.  The
\* loop turns for as long as has_exit is not set; the turns that lower the
\* speed are counted.
M_loop_tick ==
    /\ run.main = "looping"
    /\ ~run.has_exit
    /\ run.ticks < MaxRunTicks \/ current_speed <= target_speed
    /\ auto_rotate_motion
    /\ run' = [run EXCEPT !.ticks = IF current_speed > target_speed THEN @ + 1 ELSE @,
                          !.turn = 1 - @]
    /\ UNCHANGED <<calls, handVars, poseVars, eyeVars, threadVars>>

\* The event loop finds has_exit set and returns.
M_loop_exit ==
    /\ run.main = "looping"
    /\ run.has_exit
    /\ run' = [run EXCEPT !.main = "exited"]
    /\ UNCHANGED <<calls, handVars, motionVars, poseVars, last_op, eyeVars, threadVars>>

MainStep == M_start_thread \/ M_run_entry \/ M_loop_tick \/ M_loop_exit

\* ---- producer thread: StimuliRetrieverThread.run
\* Lines 28-31: cap.isOpened() and cap.read(); ok is their conjunction.
P_run_read ==
    /\ run.producer = "loop_test"
    /\ \E ok \in BOOLEAN :
           run' = IF ok /\ run.frames < MaxFrames
                  THEN [run EXCEPT !.producer = "eyes", !.frames = @ + 1]
                  ELSE [run EXCEPT !.producer = "stop"]
    /\ UNCHANGED <<calls, handVars, motionVars, poseVars, last_op, eyeVars, threadVars>>

\* Line 37: track_eyes(frame, self.update_eyes).
P_run_eyes ==
    /\ run.producer = "eyes"
    /\ \E faces \in RunEyeFrames : track_eyes(faces)
    /\ run' = [run EXCEPT !.producer = "hands"]
    /\ UNCHANGED <<calls, handVars, threadVars>>

\* Line 38: track_hands classifies the frame; its events get numbers in the
\* order of their classification.
P_run_hands ==
    /\ run.producer = "hands"
    /\ \E t \in Times, hands \in RunHandFrames : Track(t, hands)
    /\ calls' = [calls EXCEPT
                   !.classified = @ + Len(emitted'),
                   !.todo = @ \o [i \in 1..Len(emitted') |->
                                     [id |-> calls.classified + i,
                                      kind |-> emitted'[i].kind,
                                      value |-> emitted'[i].value]]]
    /\ run' = [run EXCEPT !.producer = IF calls'.todo = <<>> THEN "key" ELSE "callback"]
    /\ UNCHANGED <<motionVars, poseVars, last_op, eyeVars, threadVars>>

\* The callback of the oldest event not yet delivered is invoked.
P_run_call_begin ==
    /\ run.producer = "callback"
    /\ calls.todo # <<>>
    /\ LET e == Head(calls.todo)
       IN  calls' = [calls EXCEPT
                       !.todo = Tail(@),
                       !.inflight = @ \cup {e},
                       !.log = Append(@, [what |-> "begin", id |-> e.id, kind |-> e.kind])]
    /\ run' = [run EXCEPT !.producer = callback_continuation]
    /\ UNCHANGED <<handVars, motionVars, poseVars, last_op, eyeVars, threadVars>>

\* viewer.swipe(value) / viewer.stop_rotation() runs and returns.
P_run_call_end ==
    /\ \E e \in calls.inflight :
           /\ IF e.kind = "Swipe"
              THEN LET after == swipe_state(MotionState, e.value)
                   IN  /\ current_speed' = after.current_speed
                       /\ rotation_direction' = after.rotation_direction
                       /\ target_speed' = after.target_speed
                       /\ deceleration' = after.deceleration
                       /\ last_op' = Op("swipe", e.value, "Swipe")
              ELSE stop_rotation
           /\ calls' = [calls EXCEPT
                          !.inflight = @ \ {e},
                          !.log = Append(@, [what |-> "end", id |-> e.id, kind |-> e.kind])]
    /\ run' = [run EXCEPT !.producer =
                   IF @ = "in_call"
                   THEN (IF calls.todo = <<>> THEN "key" ELSE "callback")
                   ELSE @]
    /\ UNCHANGED <<handVars, poseVars, eyeVars, threadVars>>

\* Lines 40-44: the debug window and the quit key.
P_run_key ==
    /\ run.producer = "key"
    /\ \E quit \in BOOLEAN :
           run' = [run EXCEPT !.producer = IF quit THEN "stop" ELSE "loop_test"]
    /\ UNCHANGED <<calls, handVars, motionVars, poseVars, last_op, eyeVars, threadVars>>

\* Lines 45-52: self.stop(), whose last statement is pyglet.app.exit():
\* has_exit is set.
P_run_stop ==
    /\ run.producer = "stop"
    /\ run' = [run EXCEPT !.producer = "done", !.has_exit = TRUE]
    /\ UNCHANGED <<calls, handVars, motionVars, poseVars, last_op, eyeVars, threadVars>>

ProducerLoopStep ==
    \/ P_run_read \/ P_run_eyes \/ P_run_hands \/ P_run_call_begin
    \/ P_run_call_end \/ P_run_key \/ P_run_stop

NextRun == MainStep \/ ProducerLoopStep

(***************************************************************************)
(* Construction                                                            *)
(***************************************************************************)
\* HandTracker.__init__, src/hands_tracking.py:24-28.
InitHands ==
    /\ prev_x = None
    /\ hand_visible = FALSE
    /\ last_seen_time = Epoch
    /\ last_gesture_time = 0
    /\ n_hands = 0
    /\ last_x = None
    /\ emitted = <<>>
    /\ emit_times = {}
    /\ reacquired = "no"
    /\ suppressed = "no"
    /\ own_x = [id \in HandIds |-> None]

\* HoloViewer.__init__, src/view_3d.py:18-32 (speed kwarg at its default 0).
InitViewer ==
    /\ current_speed = 0
    /\ target_speed = current_speed
    /\ deceleration = 0
    /\ rotation_direction = 1
    /\ camera_current_angle = 0
    /\ camera_current_direction = AxisY
    /\ scene = Identity
    /\ spin_total = 0
    /\ spin_ticks = 0
    /\ last_op = [name |-> "init", arg |-> 0, before |-> MotionState,
                  gesture |-> "none", epoch |-> 0]

\* EyeTracker.__init__, src/eyes_tracking.py:17-23: no frame processed yet.
InitEyes == gaze = NoGaze

InitThreads ==
    /\ ppc = "idle"
    /\ preg = NoLocals
    /\ cpc = "idle"
    /\ creg = NoLocals
    /\ conc = [base |-> MotionState, swipes |-> <<>>, stops |-> 0, ticks |-> 0,
               calls |-> 0, all_ticks |-> 0]

\* __main__ before stimuli_thread.start(), src/SHolo.py:60-70.
InitRun ==
    /\ run = [main |-> "start", producer |-> "unstarted", has_exit |-> FALSE,
              frames |-> 0, ticks |-> 0, turn |-> 0]
    /\ calls = [classified |-> 0, todo |-> <<>>, inflight |-> {}, log |-> <<>>]

Init == InitHands /\ InitViewer /\ InitEyes /\ InitThreads /\ InitRun

SpecHands == Init /\ [][NextHands]_vars
SpecMotion == Init /\ [][NextMotion]_vars
SpecMotionFair == SpecMotion /\ WF_vars(TickMotion)
SpecPose == Init /\ [][NextPose]_vars
SpecGaze == Init /\ [][NextGaze]_vars
SpecConc == Init /\ [][NextConc]_vars
SpecRun == Init /\ [][NextRun]_vars
SpecRunFair == SpecRun /\ WF_vars(MainStep) /\ WF_vars(ProducerLoopStep)

(***************************************************************************)
(* Claims about the gesture classifier (SpecHands)                         *)
(***************************************************************************)
Swipes == {i \in 1..Len(emitted) : emitted[i].kind = "Swipe"}
Stops == {i \in 1..Len(emitted) : emitted[i].kind = "Stop"}

\* C1: any two gesture callbacks, Swipe or Stop in any combination, are more
\* than GESTURE_COOLDOWN apart: two callbacks of one frame (which share its
\* clock reading) never happen, and a callback of this frame comes more than
\* the cooldown after every callback of every earlier frame.
C1_CooldownSeparation ==
    /\ \A i, j \in 1..Len(emitted) :
           i < j => emitted[j].t - emitted[i].t > GESTURE_COOLDOWN
    /\ \A i \in 1..Len(emitted) : \A t \in emit_times :
           emitted[i].t - t > GESTURE_COOLDOWN
    /\ \A t1, t2 \in emit_times : t1 < t2 => t2 - t1 > GESTURE_COOLDOWN

\* A third callback, a Stop, after a Swipe and one more callback.
C1_Witness ==
    /\ Stops # {}
    /\ Cardinality(emit_times) >= 2

\* C2: the first frame in which a hand is back after more than
\* VISIBILITY_RESET_TIME without one finds prev_x absent and emits no Swipe
\* (stated for the frames that hold a single hand, where a Swipe can only
\* come from the position remembered from before the absence).
C2_NoSwipeOnReacquisition ==
    (reacquired # "no" /\ n_hands = 1) => (reacquired = "clean" /\ Swipes = {})

\* C10: a Swipe is emitted for a hand only if that hand's own wrist moved by
\* more than SWIPE_THRESHOLD since that hand's own previous sample.
C10_SwipeFromOwnMovement ==
    \A i \in Swipes : emitted[i].own

\* C15: every emitted Swipe carries sign(movement) * round(|movement| * 10, 2):
\* the value is positive exactly when the wrist moved rightward, its absolute
\* value is the hundredth nearest to ten times the displacement (wrist x
\* counts 1/4000, the value 1/100, so 4 |value| is within 2 of |movement|)
\* and is not zero; a movement of 0.2 gives 2.0.
C15_SwipeValue ==
    /\ \A i \in Swipes :
           /\ emitted[i].value # 0
           /\ (emitted[i].value > 0) <=> (emitted[i].movement > 0)
           /\ Abs(4 * Abs(emitted[i].value) - Abs(emitted[i].movement)) <= 2
    /\ SwipeMagnitude(800) = 200

\* A leftward Swipe whose magnitude had to be rounded (0.15075 to 1.51).
C15_Witness ==
    \E i \in Swipes : emitted[i].movement = -603 /\ emitted[i].value = -151

\* C18: after every frame with a hand prev_x is that frame's wrist x (of the
\* hand handled last), with or without a Swipe; a move beyond the threshold
\* that the cooldown held back is not emitted by the next frame once the
\* cooldown is over, unless the wrist again moved beyond the threshold
\* between the two frames.
C18_ConsecutiveSamples ==
    /\ n_hands > 0 => prev_x = last_x
    /\ suppressed = "dropped" => Swipes = {}
    /\ \A i \in Swipes : Abs(emitted[i].movement) > SWIPE_THRESHOLD

\* A frame after the cooldown that follows a held-back move and moves little.
C18_Witness ==
    /\ suppressed = "dropped"
    /\ n_hands = 1
    /\ prev_x = last_x

\* C19: a frame invokes at most one gesture callback, whatever the number of
\* hands; a frame with one hand that meets the swipe condition (a previous
\* sample, a move beyond the threshold, the cooldown over) invokes the
\* Swipe and nothing else, also when the palm is open.
C19_OneCallbackPerFrame ==
    /\ [](Len(emitted) <= 1)
    /\ [][(/\ n_hands' = 1
           /\ prev_x # None
           /\ Abs(last_x'[1] - prev_x[1]) > SWIPE_THRESHOLD
           /\ CooldownOver(last_seen_time', last_gesture_time))
              => (Len(emitted') = 1 /\ emitted'[1].kind = "Swipe")]_vars

\* A frame with two hands in which an open palm swiped: the Swipe is the
\* only callback.
C19_Witness ==
    /\ n_hands = 2
    /\ \E i \in Swipes : emitted[i].open
    /\ Stops = {}

\* C20: between frames hand_visible is true exactly when prev_x is present.
C20_VisibleIffPrevX ==
    hand_visible <=> (prev_x # None)

\* Both cleared by the visibility reset after a hand had made a gesture.
C20_Witness ==
    /\ ~hand_visible
    /\ prev_x = None
    /\ n_hands = 0
    /\ last_gesture_time > 0

(***************************************************************************)
(* Claims about MotionState, one call at a time (SpecMotion)               *)
(***************************************************************************)
Before == last_op.before
SignedBefore == Before.rotation_direction * Before.current_speed
SignedNow == rotation_direction * current_speed

\* C5: after a Stop and with no gesture since, a tick leaves current_speed
\* at most what it was before the tick and never below 0.
C5_StopDecaysMonotonically ==
    (last_op.name = "tick" /\ last_op.gesture = "Stop") =>
        /\ current_speed <= Before.current_speed
        /\ current_speed >= 0

\* A tick after a Stop that slowed the view down without halting it.
C5_Witness ==
    /\ last_op.name = "tick"
    /\ last_op.gesture = "Stop"
    /\ 0 < current_speed
    /\ current_speed < Before.current_speed

\* C6: when current_speed is above target_speed after a gesture and no
\* further gesture arrives, ticks bring it to exactly target_speed, and a
\* tick taken at target_speed leaves it there.
C6_ConvergesToTarget ==
    /\ \A k \in {0, 1} :
           (last_op.gesture # "none" /\ last_op.epoch = k /\ current_speed > target_speed)
               ~> (current_speed = target_speed \/ last_op.epoch # k)
    /\ [][(current_speed = target_speed /\ last_op'.name = "tick")
             => current_speed' = target_speed']_vars

\* The view cruising at base_speed after having been faster.
C6_Witness ==
    /\ last_op.name = "tick"
    /\ last_op.gesture = "Swipe"
    /\ Before.current_speed > target_speed
    /\ current_speed = target_speed

\* The parts of C9 that hold as the claim states them: the signed velocity
\* grows by m/5 (m in hundredths, speeds in 1/SpeedScale), the speed is not
\* negative, the direction is +1 exactly for a signed sum >= 0, and the
\* target and the deceleration are the base ones.
SwipePostcondition ==
    /\ 100 * 5 * (SignedNow - SignedBefore) = last_op.arg * SpeedScale
    /\ current_speed >= 0
    /\ rotation_direction \in {1, -1}
    /\ (rotation_direction = 1) <=> (100 * 5 * SignedBefore + last_op.arg * SpeedScale >= 0)
    /\ target_speed = base_speed
    /\ deceleration = base_deceleration

\* C9 as claimed: swipe(m) adds m/5 to the signed velocity (all of
\* SwipePostcondition), and the direction flips only when m opposes the
\* rotation and m/5 exceeds the speed there was.
C9_AsClaimed ==
    last_op.name = "swipe" =>
        /\ SwipePostcondition
        /\ rotation_direction # Before.rotation_direction =>
               /\ last_op.arg * Before.rotation_direction < 0
               /\ Abs(last_op.arg) * SpeedScale > 100 * 5 * Before.current_speed

\* C9 amended: as claimed, but the direction flips only when m/5 is at
\* least the speed there was (a leftward rotation whose speed the swipe
\* cancels exactly ends with direction +1 and speed 0).
C9_SwipeAddsSignedSpeed ==
    last_op.name = "swipe" =>
        /\ SwipePostcondition
        /\ rotation_direction # Before.rotation_direction =>
               /\ last_op.arg * Before.rotation_direction <= 0
               /\ Abs(last_op.arg) * SpeedScale >= 100 * 5 * Before.current_speed

\* A swipe against a rotating view that flipped its direction.
C9_Witness ==
    /\ last_op.name = "swipe"
    /\ Before.current_speed > 0
    /\ rotation_direction # Before.rotation_direction
    /\ current_speed > 0

\* C16: a tick computes current_speed by the two-regime rule.  At or below
\* the target nothing changes; with an excess above max(target_speed,
\* deceleration) the new speed is current_speed * (1 - dt) + target_speed * dt
\* (dt = 1 / fps, to the nearest speed unit); otherwise it is
\* max(current_speed - deceleration * dt, target_speed).  So a tick never
\* raises the speed, never takes it below a target it was above, and leaves
\* target_speed, deceleration and rotation_direction alone.
C16_TwoRegimeTick ==
    last_op.name = "tick" =>
        LET excess == Before.current_speed - Before.target_speed
        IN  /\ excess <= 0 => current_speed = Before.current_speed
            /\ (excess > 0 /\ excess > Max2(Before.target_speed, Before.deceleration)) =>
                   2 * Abs(fps * current_speed
                           - (Before.current_speed * (fps - 1) + Before.target_speed)) <= fps
            /\ (excess > 0 /\ excess <= Max2(Before.target_speed, Before.deceleration)) =>
                   IF fps * excess >= Before.deceleration
                   THEN fps * (Before.current_speed - current_speed) = Before.deceleration
                   ELSE current_speed = Before.target_speed
            /\ current_speed <= Before.current_speed
            /\ excess > 0 => current_speed >= Before.target_speed
            /\ target_speed = Before.target_speed
            /\ deceleration = Before.deceleration
            /\ rotation_direction = Before.rotation_direction

\* An exponential step towards base_speed of a view turning leftward.
C16_Witness ==
    /\ last_op.name = "tick"
    /\ Before.target_speed = base_speed
    /\ Before.current_speed - Before.target_speed
           > Max2(Before.target_speed, Before.deceleration)
    /\ rotation_direction = -1
    /\ current_speed < Before.current_speed

\* C17: stop_rotation sets target_speed to 0 and deceleration to
\* stop_deceleration and leaves current_speed and rotation_direction as they
\* were before the call.
C17_StopKeepsSpeed ==
    last_op.name = "stop_rotation" =>
        /\ target_speed = 0
        /\ deceleration = stop_deceleration
        /\ current_speed = Before.current_speed
        /\ rotation_direction = Before.rotation_direction

\* A Stop received by a view that turns leftward faster than base_speed.
C17_Witness ==
    /\ last_op.name = "stop_rotation"
    /\ current_speed > base_speed
    /\ rotation_direction = -1
    /\ Before.target_speed = base_speed

(***************************************************************************)
(* Claims about the camera pose and the scene (SpecPose)                   *)
(***************************************************************************)
SpinFactors == SelectSeq(scene.word, LAMBDA f : f.axis = AxisY)
OtherFactors == SelectSeq(scene.word, LAMBDA f : f.axis # AxisY)
AngleSum(w) == SumSeq([i \in 1..Len(w) |-> w[i].angle]) % FullTurn
CurrentPose == rotation_matrix(camera_current_angle, camera_current_direction)

\* C7: the scene transform is the accumulated spin with exactly one camera
\* pose in it, that of the last set_camera_angle: apart from that pose every
\* factor is a rotation about the spin axis, and these sum to the spin
\* applied by the ticks.  (Stated for finite transforms.)
C7_OnePoseContribution ==
    scene.finite =>
        IF camera_current_direction = AxisY
        THEN /\ OtherFactors = <<>>
             /\ AngleSum(SpinFactors) = (spin_total + camera_current_angle) % FullTurn
        ELSE /\ OtherFactors = CurrentPose.word
             /\ AngleSum(SpinFactors) = spin_total

\* C8: set_camera_angle called a second time in a row with the same angle
\* and direction leaves the scene transform and the stored pose as they were
\* after the first call.
C8_SetPoseIdempotent ==
    [][(last_op'.name = "set_camera_angle" /\ last_op'.before.repeat)
          => /\ scene' = scene
             /\ camera_current_angle' = camera_current_angle
             /\ camera_current_direction' = camera_current_direction]_vars

\* The same tilted pose set twice in a row on a scene that has been spun.
C8_Witness ==
    /\ last_op.name = "set_camera_angle"
    /\ last_op.before.repeat
    /\ camera_current_direction = AxisX
    /\ spin_total # 0
    /\ scene.finite

(***************************************************************************)
(* Claims about the gaze mapper and the camera pose (SpecGaze)             *)
(***************************************************************************)
\* C11: a set_camera_angle whose direction is the zero vector, as
\* compute_gaze_rotation returns it for a gaze point at the screen centre
\* seen from a finite distance, leaves a finite scene transform finite: no
\* rotation about the undefined axis is applied.
C11_ZeroDirectionSkipped ==
    (/\ last_op.name = "set_camera_angle"
     /\ gaze.called
     /\ gaze.distance_cm.finite
     /\ camera_current_direction = ZeroVector
     /\ gaze.before_finite) => scene.finite

\* C12: a face whose two eye centres coincide (ipd_px = 0) does not invoke
\* the gaze callback, and the distance_cm the callback passes on to
\* compute_gaze_rotation and set_camera_angle is always finite.
C12_CollapsedEyesSkipped ==
    /\ (gaze.faces = 1 /\ gaze.ipd_px = 0) => ~gaze.called
    /\ gaze.called => gaze.distance_cm.finite

(***************************************************************************)
(* Claims about the two threads (SpecConc)                                 *)
(***************************************************************************)
Quiescent == ppc = "idle" /\ cpc = "idle"
TickLoadedSpeed ==
    cpc \in {"tick43_load_target", "tick44_load_target", "tick44_load_target_again",
             "tick44_load_deceleration", "tick46_load_target", "tick46_store_speed",
             "tick49_load_deceleration", "tick49_load_target", "tick49_store_speed",
             "tick53_apply"}

\* C3: under every interleaving, every current_speed a tick reads and the
\* current_speed left when no call is in flight is >= 0, and
\* rotation_direction is +1 or -1.
C3_SpeedNeverNegative ==
    /\ rotation_direction \in {1, -1}
    /\ TickLoadedSpeed => creg.cur >= 0
    /\ Quiescent => current_speed >= 0

\* C4: one swipe and one tick that overlap leave the (current_speed,
\* rotation_direction) of one of their two serial orders.
C4_SwipeTickSerializable ==
    (Quiescent /\ Len(conc.swipes) = 1 /\ conc.ticks = 1 /\ conc.stops = 0) =>
        LET m == conc.swipes[1]
            a == tick_state(swipe_state(conc.base, m))
            b == swipe_state(tick_state(conc.base), m)
        IN  \/ /\ current_speed = a.current_speed
               /\ rotation_direction = a.rotation_direction
            \/ /\ current_speed = b.current_speed
               /\ rotation_direction = b.rotation_direction

(***************************************************************************)
(* Claims about the program run (SpecRun, SpecRunFair)                     *)
(***************************************************************************)
\* C13: the viewer calls are made in the order in which their events were
\* classified and one after the other: the call log reads begin 1, end 1,
\* begin 2, end 2, ..., no call is made for an event not yet classified, and
\* whenever the producer is outside the callbacks of a frame every event
\* classified so far has had its call completed.
C13_AppliedInClassifiedOrder ==
    /\ \A i \in 1..Len(calls.log) :
           /\ calls.log[i].what = (IF i % 2 = 1 THEN "begin" ELSE "end")
           /\ calls.log[i].id = (i + 1) \div 2
    /\ Len(calls.log) <= 2 * calls.classified
    /\ run.producer \notin {"callback", "in_call"} =>
           Len(calls.log) = 2 * calls.classified

\* A Swipe and, from a later frame, a Stop, both applied: the view turns
\* and has been told to halt.
C13_Witness ==
    /\ Len(calls.log) = 4
    /\ calls.log[2].kind = "Swipe"
    /\ calls.log[4].kind = "Stop"
    /\ target_speed = 0
    /\ current_speed > 0

\* C14: whenever the producer loop has ended (camera not open, a read that
\* fails, the quit key), the event loop of the main thread eventually
\* returns, whether the producer ended before or after the main thread
\* entered it.
C14_ConsumerTerminates ==
    (run.producer = "done") ~> (run.main = "exited")

====
